---------------------------- MODULE Spec2Model ----------------------------
(***************************************************************************)
(* A model of the chess rules engine of vitvakatu/chess: the board state,  *)
(* pseudo-legal move generation, the clone-and-simulate legality filter,   *)
(* attack and terminal detection, move application and the conversion of   *)
(* moves to and from standard algebraic notation (SAN).                    *)
(*                                                                         *)
(* Rust values are modelled as follows.                                    *)
(*   Option<T>      a sequence of length at most one: <<>> or <<x>>        *)
(*   Vec<T>, iter   a sequence, in the order the code produces it          *)
(*   File           its ordinal 1..8 (File::as_u8)                         *)
(*   Rank           the u8 it wraps, 1..8                                  *)
(*   enum variants  strings, or records with a "tag" field                 *)
(*   &str           a sequence of one-character strings                    *)
(***************************************************************************)
EXTENDS Integers, Sequences, FiniteSets, TLC

VARIABLES
    board,      \* App::board, the one authoritative BoardState
    placement,  \* the placement string `board` was built from
    last_mv,    \* history: the move the last make_move was called with (Option<Move>)
    n_moves,    \* history: how many times make_move was called on `board`
    moves_list, \* App::moves_list: MoveList::moves, the SAN moves added so far
    test,       \* a run of take_while_inclusive: the source v, the iterator, the items drawn r
    parsed      \* a call of parse_fen: the string given and how the call ended

vars == <<board, placement, last_mv, n_moves, moves_list, test, parsed>>

---------------------------------------------------------------------------
(* Option<T> *)

None == <<>>

Some(x) == <<x>>

unwrap(o) == o[1]

---------------------------------------------------------------------------
(* pos.rs: files, ranks, positions *)

A == 1

B == 2

C == 3

D == 4

E == 5

F == 6

G == 7

H == 8

try_from_u8(value) == IF value \in 1..8 THEN Some(value) ELSE None

try_new(rank) == IF rank >= 1 /\ rank <= 8 THEN Some(rank) ELSE None

Pos(file, rank) == [file |-> file, rank |-> rank]

AllPos == {Pos(f, r) : f \in 1..8, r \in 1..8}

from_pos(pos) == [file |-> pos.file, rank |-> pos.rank]

up(p, n) == [p EXCEPT !.rank = p.rank + n]

down(p, n) == [p EXCEPT !.rank = p.rank - n]

left(p, n) == [p EXCEPT !.file = p.file - n]

right(p, n) == [p EXCEPT !.file = p.file + n]

to_pos(p) ==
    IF p.file < 0 \/ p.rank < 0 THEN None
    ELSE IF try_from_u8(p.file) = None THEN None
    ELSE IF try_new(p.rank) = None THEN None
    ELSE Some(Pos(unwrap(try_from_u8(p.file)), unwrap(try_new(p.rank))))

horizontal(pos, n, direction) ==
    [i \in 1..n |-> IF direction = "Left" THEN left(from_pos(pos), i)
                    ELSE right(from_pos(pos), i)]

vertical(pos, n, direction) ==
    [i \in 1..n |-> IF direction = "Up" THEN up(from_pos(pos), i)
                    ELSE down(from_pos(pos), i)]

diagonal(pos, n, direction) ==
    [i \in 1..n |->
        CASE direction = "UpLeft" -> left(up(from_pos(pos), i), i)
          [] direction = "UpRight" -> right(up(from_pos(pos), i), i)
          [] direction = "DownLeft" -> left(down(from_pos(pos), i), i)
          [] direction = "DownRight" -> right(down(from_pos(pos), i), i)]

---------------------------------------------------------------------------
(* iterator adaptors *)

RECURSIVE flatten(_)
flatten(ss) == IF ss = <<>> THEN <<>> ELSE Head(ss) \o flatten(Tail(ss))

map(s, f(_)) == [i \in 1..Len(s) |-> f(s[i])]

filter(s, p(_)) == SelectSeq(s, p)

filter_map_to_pos(s) ==
    map(filter(s, LAMBDA p : to_pos(p) # None), LAMBDA p : unwrap(to_pos(p)))

\* the items of a Vec, as a set
Range(s) == {s[i] : i \in 1..Len(s)}

contains(s, x) == \E i \in 1..Len(s) : s[i] = x

\* std TakeWhile: the elements before the first one that fails the predicate.
take_while(s, p(_)) ==
    LET bad == {i \in 1..Len(s) : ~p(s[i])}
    IN  IF bad = {} THEN s
        ELSE SubSeq(s, 1, (CHOOSE i \in bad : \A j \in bad : i <= j) - 1)

\* TakeWhileInclusive: `iter` holds the items not yet drawn; `predicate` is the
\* set of the items the predicate accepts; next() yields <<Option<item>, iterator>>.
TakeWhileInclusive_new(iter, predicate) ==
    [iter |-> iter, flag |-> FALSE, predicate |-> predicate]

\* next() of std TakeWhile: the first item that fails the predicate is dropped
TakeWhileInclusive_next_exclusive(it) ==
    IF it.flag THEN <<None, it>>
    ELSE IF it.iter = <<>> THEN <<None, it>>
    ELSE LET x == Head(it.iter)
         IN  IF x \in it.predicate
             THEN <<Some(x), [iter |-> Tail(it.iter), flag |-> it.flag,
                              predicate |-> it.predicate]>>
             ELSE <<None, [iter |-> Tail(it.iter), flag |-> TRUE,
                           predicate |-> it.predicate]>>

TakeWhileInclusive_next(it) ==
    IF it.flag THEN <<None, it>>
    ELSE IF it.iter = <<>> THEN <<None, it>>
    ELSE LET x == Head(it.iter)
         IN  <<Some(x),
               [iter |-> Tail(it.iter),
                flag |-> IF ~(x \in it.predicate) THEN TRUE ELSE it.flag,
                predicate |-> it.predicate]>>

RECURSIVE collect(_)
collect(it) ==
    LET r == TakeWhileInclusive_next(it)
    IN  IF r[1] = None THEN <<>> ELSE <<unwrap(r[1])>> \o collect(r[2])

take_while_inclusive(iter, p) == collect(TakeWhileInclusive_new(iter, p))

---------------------------------------------------------------------------
(* piece.rs *)

PieceColor == {"White", "Black"}

PieceType == {"Pawn", "King", "Queen", "Rook", "Bishop", "Knight"}

Not(color) == IF color = "Black" THEN "White" ELSE "Black"

king_rank(color) == IF color = "White" THEN 1 ELSE 8

king_home(color) == Pos(E, king_rank(color))

Piece(kind, color) == [kind |-> kind, color |-> color]

\* board.rs Square: Empty | Piece(Piece)
Empty == [kind |-> "Empty", color |-> "None"]

---------------------------------------------------------------------------
(* moves.rs *)

PromotedTo == {"Knight", "Bishop", "Rook", "Queen"}

to_piece(promote, color) == Piece(promote, color)

Move_new(from, to) ==
    [tag |-> "Regular", from |-> from, to |-> to, promoted |-> None]

new_with_promoted(from, to, promoted) ==
    [tag |-> "Regular", from |-> from, to |-> to, promoted |-> promoted]

castling(side) == [tag |-> "Castling", side |-> side]

\* Move::to that gives a castle the cell the white king lands on
Move_to_castling_lands(mv) ==
    IF mv.tag = "Regular" THEN Some(mv.to)
    ELSE Some(Pos(IF mv.side = "Short" THEN G ELSE C, 1))

Move_to(mv) == IF mv.tag = "Regular" THEN Some(mv.to) ELSE None

---------------------------------------------------------------------------
(* fen.rs *)

STARTING_POSITION ==
    << "r","n","b","q","k","b","n","r", "/",
       "p","p","p","p","p","p","p","p", "/",
       "8", "/", "8", "/", "8", "/", "8", "/",
       "P","P","P","P","P","P","P","P", "/",
       "R","N","B","Q","K","B","N","R" >>

FOOLS_MATE ==
    << "r","n","b","q","k","b","n","r", "/",
       "p","p","p","p","p","p","p","p", "/",
       "8", "/",
       "7","Q", "/",
       "2","B","5", "/",
       "8", "/",
       "P","P","P","P","1","P","P","P", "/",
       "R","N","B","1","K","1","N","R" >>

TWO_KINGS ==
    << "4","k","3", "/", "8", "/", "8", "/", "8", "/",
       "8", "/", "8", "/", "8", "/", "3","K","4" >>

\* char::is_digit(10) and the value str::parse gives it
DigitChars == <<"0", "1", "2", "3", "4", "5", "6", "7", "8", "9">>

is_digit(ch) == contains(DigitChars, ch)

parse_digit(ch) == (CHOOSE i \in 1..10 : DigitChars[i] = ch) - 1

LowerChars ==
    <<"a","b","c","d","e","f","g","h","i","j","k","l","m",
      "n","o","p","q","r","s","t","u","v","w","x","y","z">>

UpperChars ==
    <<"A","B","C","D","E","F","G","H","I","J","K","L","M",
      "N","O","P","Q","R","S","T","U","V","W","X","Y","Z">>

is_ascii_lowercase(ch) == contains(LowerChars, ch)

to_ascii_lowercase(ch) ==
    IF contains(UpperChars, ch)
    THEN LowerChars[CHOOSE i \in 1..26 : UpperChars[i] = ch]
    ELSE ch

\* the `match piece` of parse_fen; "Panic" stands for the panic! arm
fen_kind(ch) ==
    CASE ch = "p" -> "Pawn"
      [] ch = "k" -> "King"
      [] ch = "q" -> "Queen"
      [] ch = "r" -> "Rook"
      [] ch = "b" -> "Bishop"
      [] ch = "n" -> "Knight"
      [] OTHER -> "Panic"

\* One character of a rank: the cells it pushes (None when it panics).
fen_char(ch) ==
    IF is_digit(ch) THEN Some([i \in 1..parse_digit(ch) |-> Empty])
    ELSE LET color == IF is_ascii_lowercase(ch) THEN "Black" ELSE "White"
             kind == fen_kind(to_ascii_lowercase(ch))
         IN  IF kind = "Panic" THEN None ELSE Some(<<Piece(kind, color)>>)

\* parse_fen: Some(cells), or None when the parse panics. The "/" separators
\* are what fen.split("/") removes.
RECURSIVE parse_fen(_)
parse_fen(fen) ==
    IF fen = <<>> THEN Some(<<>>)
    ELSE IF Head(fen) = "/" THEN parse_fen(Tail(fen))
    ELSE LET cells == fen_char(Head(fen))
             rest == parse_fen(Tail(fen))
         IN  IF cells = None \/ rest = None THEN None
             ELSE Some(unwrap(cells) \o unwrap(rest))

---------------------------------------------------------------------------
(* board/castling.rs *)

CastlingState_new ==
    [king_moved |-> FALSE, rook_moved_short |-> FALSE, rook_moved_long |-> FALSE]

is_short_possible(cs) == ~cs.king_moved /\ ~cs.rook_moved_short

\* is_long_possible with the rook flag's negation dropped
is_long_possible_rook_moved(cs) == ~cs.king_moved /\ cs.rook_moved_long

is_long_possible(cs) == ~cs.king_moved /\ ~cs.rook_moved_long

---------------------------------------------------------------------------
(* board/state.rs: BoardState *)

\* The BoardState built from a parsed placement; every other field as in new().
BoardState_from(cells) ==
    [squares |-> map(cells, LAMBDA s : <<s, FALSE>>),
     selected_piece |-> None,
     turn |-> "White",
     castling_white |-> CastlingState_new,
     castling_black |-> CastlingState_new,
     plies_since_last_non_repeatable_move |-> 0,
     move_number |-> 1,
     game_result |-> None]

BoardState_new == BoardState_from(unwrap(parse_fen(STARTING_POSITION)))

switch_turn(self) == [self EXCEPT !.turn = Not(self.turn)]

castling_of(self, color) ==
    IF color = "White" THEN self.castling_white ELSE self.castling_black

\* castling_mut that sets the flag on a fresh CastlingState, so that the two
\* other flags of the color are lost
castling_mut_fresh(self, color, flag) ==
    IF color = "White"
    THEN [self EXCEPT !.castling_white = [CastlingState_new EXCEPT ![flag] = TRUE]]
    ELSE [self EXCEPT !.castling_black = [CastlingState_new EXCEPT ![flag] = TRUE]]

\* castling_mut(color).<flag> = true
castling_mut(self, color, flag) ==
    IF color = "White"
    THEN [self EXCEPT !.castling_white = [@ EXCEPT ![flag] = TRUE]]
    ELSE [self EXCEPT !.castling_black = [@ EXCEPT ![flag] = TRUE]]

is_castling_possible(self, side) ==
    LET cs == castling_of(self, self.turn)
    IN  IF side = "Short" THEN ~cs.king_moved /\ ~cs.rook_moved_short
        ELSE ~cs.king_moved /\ ~cs.rook_moved_long

\* the index is 0-based as in the code; the sequence is 1-based
square_index_by_pos(pos) == ((64 - (pos.rank * 8)) + pos.file) - 1

pos_by_square_index(index) == Pos((index % 8) + 1, 8 - (index \div 8))

square_by_pos(self, pos) == self.squares[square_index_by_pos(pos) + 1][1]

\* *self.square_by_pos_mut(pos) = square
square_by_pos_mut(self, pos, square) ==
    [self EXCEPT !.squares[square_index_by_pos(pos) + 1][1] = square]

is_square_occupied(self, pos) == square_by_pos(self, pos) # Empty

is_square_occupied_by_color(self, pos, color) ==
    IF square_by_pos(self, pos) # Empty
    THEN square_by_pos(self, pos).color = color
    ELSE FALSE

pieces(self) ==
    LET occupied == filter([i \in 1..Len(self.squares) |-> i - 1],
                           LAMBDA i : self.squares[i + 1][1] # Empty)
    IN  map(occupied, LAMBDA i : <<self.squares[i + 1][1], pos_by_square_index(i)>>)

make_move_inner(self, from, to) ==
    LET piece == square_by_pos(self, from)
    IN  square_by_pos_mut(square_by_pos_mut(self, from, Empty), to, piece)

\* a promotion that moves the pawn and forgets the promoted piece
make_move_promote_keeping_pawn(self, from, to, promote) ==
    make_move_inner(self, from, to)

make_move_promote(self, from, to, promote) ==
    square_by_pos_mut(square_by_pos_mut(self, from, Empty), to,
                      to_piece(promote, self.turn))

\* the Regular arm with the rook's file read from the destination
make_move_regular_rook_by_destination(self, mv) ==
    LET from == mv.from
        to == mv.to
        piece == square_by_pos(self, from)
        s1 == IF piece.kind = "King"
              THEN castling_mut(self, piece.color, "king_moved") ELSE self
        s2 == IF piece.kind = "Rook" /\ to.file = A
              THEN castling_mut(s1, piece.color, "rook_moved_long") ELSE s1
        s3 == IF piece.kind = "Rook" /\ to.file = H
              THEN castling_mut(s2, piece.color, "rook_moved_short") ELSE s2
        s4 == IF mv.promoted # None
              THEN make_move_promote(s3, from, to, unwrap(mv.promoted))
              ELSE make_move_inner(s3, from, to)
    IN  [s4 EXCEPT !.plies_since_last_non_repeatable_move = 0]

\* The Move::Regular arm of make_move. The caller guarantees a piece on `from`
\* (the code panics otherwise).
make_move_regular(self, mv) ==
    LET from == mv.from
        to == mv.to
        piece == square_by_pos(self, from)
        s1 == IF piece.kind = "King"
              THEN castling_mut(self, piece.color, "king_moved") ELSE self
        s2 == IF piece.kind = "Rook" /\ from.file = A
              THEN castling_mut(s1, piece.color, "rook_moved_long") ELSE s1
        s3 == IF piece.kind = "Rook" /\ from.file = H
              THEN castling_mut(s2, piece.color, "rook_moved_short") ELSE s2
        s4 == IF mv.promoted # None
              THEN make_move_promote(s3, from, to, unwrap(mv.promoted))
              ELSE make_move_inner(s3, from, to)
        is_capture == is_square_occupied(s4, to)
        is_pawn_move == piece.kind = "Pawn"
    IN  IF is_capture \/ is_pawn_move
        THEN [s4 EXCEPT !.plies_since_last_non_repeatable_move = 0]
        ELSE [s4 EXCEPT !.plies_since_last_non_repeatable_move = @ + 1]

\* the Castling arm without the rook's flag: only king_moved is set
make_move_castling_king_flag_only(self, mv) ==
    LET s1 == [self EXCEPT !.plies_since_last_non_repeatable_move = @ + 1]
        s2 == castling_mut(s1, self.turn, "king_moved")
        rank == IF self.turn = "White" THEN 1 ELSE 8
    IN  IF mv.side = "Short"
        THEN make_move_inner(make_move_inner(s2, Pos(E, rank), Pos(G, rank)),
                             Pos(H, rank), Pos(F, rank))
        ELSE make_move_inner(make_move_inner(s2, Pos(E, rank), Pos(C, rank)),
                             Pos(A, rank), Pos(D, rank))

\* The Move::Castling arm of make_move.
make_move_castling(self, mv) ==
    LET s1 == [self EXCEPT !.plies_since_last_non_repeatable_move = @ + 1]
        s2 == castling_mut(s1, self.turn, "king_moved")
        rank == IF self.turn = "White" THEN 1 ELSE 8
        king_home_ == Pos(E, rank)
        king_dest_short == Pos(G, rank)
        king_dest_long == Pos(C, rank)
        rook_home_short == Pos(H, rank)
        rook_home_long == Pos(A, rank)
        rook_dest_short == Pos(F, rank)
        rook_dest_long == Pos(D, rank)
    IN  IF mv.side = "Short"
        THEN make_move_inner(
                 make_move_inner(castling_mut(s2, self.turn, "rook_moved_short"),
                                 king_home_, king_dest_short),
                 rook_home_short, rook_dest_short)
        ELSE make_move_inner(
                 make_move_inner(castling_mut(s2, self.turn, "rook_moved_long"),
                                 king_home_, king_dest_long),
                 rook_home_long, rook_dest_long)

\* make_move that counts a move on every ply, not only when White is next
make_move_counting_every_ply(self, mv) ==
    LET moved == IF mv.tag = "Regular" THEN make_move_regular(self, mv)
                 ELSE make_move_castling(self, mv)
    IN  [switch_turn(moved) EXCEPT !.move_number = @ + 1]

make_move(self, mv) ==
    LET moved == IF mv.tag = "Regular" THEN make_move_regular(self, mv)
                 ELSE make_move_castling(self, mv)
        switched == switch_turn(moved)
    IN  IF switched.turn = "White"
        THEN [switched EXCEPT !.move_number = @ + 1]
        ELSE switched

\* #[derive(Clone)]: an independent copy, field by field
clone(self) ==
    [squares |-> self.squares,
     selected_piece |-> self.selected_piece,
     turn |-> self.turn,
     castling_white |-> self.castling_white,
     castling_black |-> self.castling_black,
     plies_since_last_non_repeatable_move |-> self.plies_since_last_non_repeatable_move,
     move_number |-> self.move_number,
     game_result |-> self.game_result]

---------------------------------------------------------------------------
(* board/state.rs: pseudo-legal move generation *)

\* a sliding ray that does not stop at the first occupied cell
ray_through(self, piece, steps) ==
    filter(filter_map_to_pos(steps),
           LAMBDA p : ~is_square_occupied_by_color(self, p, piece.color))

\* a sliding ray cut by std take_while: it stops before the first occupied cell
ray_exclusive(self, piece, steps) ==
    filter(take_while(filter_map_to_pos(steps),
                      LAMBDA p : ~is_square_occupied(self, p)),
           LAMBDA p : ~is_square_occupied_by_color(self, p, piece.color))

\* one sliding ray: take_while_inclusive(not occupied) then filter(not friendly)
ray(self, piece, steps) ==
    filter(take_while_inclusive(filter_map_to_pos(steps),
                                {p \in AllPos : ~is_square_occupied(self, p)}),
           LAMBDA p : ~is_square_occupied_by_color(self, p, piece.color))

vertical_rays(self, piece, pos) ==
    flatten(map(<<"Up", "Down">>, LAMBDA dir : ray(self, piece, vertical(pos, 8, dir))))

horizontal_rays(self, piece, pos) ==
    flatten(map(<<"Left", "Right">>,
                LAMBDA dir : ray(self, piece, horizontal(pos, 8, dir))))

diagonal_rays(self, piece, pos) ==
    flatten(map(<<"UpLeft", "UpRight", "DownLeft", "DownRight">>,
                LAMBDA dir : ray(self, piece, diagonal(pos, 8, dir))))

\* pawn moves that promote to a Queen only: the forward cells and the captures
\* as in available_moves_pawn, one move per destination
available_moves_pawn_queen_only(self, piece, pos) ==
    LET is_white == piece.color = "White"
        direction == IF is_white THEN "Up" ELSE "Down"
        is_first_move == IF is_white THEN pos.rank = 2 ELSE pos.rank = 7
        forward ==
            take_while(
                filter_map_to_pos(
                    vertical(pos, IF is_first_move THEN 2 ELSE 1, direction)),
                LAMBDA p : ~is_square_occupied(self, p))
        diagonal_directions ==
            IF is_white THEN <<"UpLeft", "UpRight">> ELSE <<"DownLeft", "DownRight">>
        captures ==
            flatten(map(diagonal_directions,
                LAMBDA dir :
                    filter(filter_map_to_pos(diagonal(pos, 1, dir)),
                           LAMBDA p : is_square_occupied_by_color(
                                          self, p, Not(piece.color)))))
    IN  map(forward \o captures,
            LAMBDA to :
                IF to.rank = king_rank(Not(piece.color))
                THEN new_with_promoted(pos, to, Some("Queen"))
                ELSE Move_new(pos, to))

available_moves_pawn(self, piece, pos) ==
    LET is_white == piece.color = "White"
        direction == IF is_white THEN "Up" ELSE "Down"
        is_first_move == IF is_white THEN pos.rank = 2 ELSE pos.rank = 7
        forward ==
            take_while(
                filter_map_to_pos(
                    vertical(pos, IF is_first_move THEN 2 ELSE 1, direction)),
                LAMBDA p : ~is_square_occupied(self, p))
        diagonal_directions ==
            IF is_white THEN <<"UpLeft", "UpRight">> ELSE <<"DownLeft", "DownRight">>
        captures ==
            flatten(map(diagonal_directions,
                LAMBDA dir :
                    filter(filter_map_to_pos(diagonal(pos, 1, dir)),
                           LAMBDA p : is_square_occupied_by_color(
                                          self, p, Not(piece.color)))))
        moves == forward \o captures
    IN  flatten(map(moves,
            LAMBDA to :
                IF to.rank = king_rank(Not(piece.color))
                THEN << new_with_promoted(pos, to, Some("Queen")),
                        new_with_promoted(pos, to, Some("Bishop")),
                        new_with_promoted(pos, to, Some("Rook")),
                        new_with_promoted(pos, to, Some("Knight")) >>
                ELSE << Move_new(pos, to) >>))

available_moves_king(self, piece, pos) ==
    LET cs == castling_of(self, piece.color)
        short_castling ==
            IF is_short_possible(cs) THEN Some(castling("Short")) ELSE None
        long_castling ==
            IF is_long_possible(cs) THEN Some(castling("Long")) ELSE None
        steps == vertical(pos, 1, "Up") \o vertical(pos, 1, "Down")
                 \o horizontal(pos, 1, "Left") \o horizontal(pos, 1, "Right")
                 \o diagonal(pos, 1, "UpLeft") \o diagonal(pos, 1, "UpRight")
                 \o diagonal(pos, 1, "DownLeft") \o diagonal(pos, 1, "DownRight")
        dests == filter(filter_map_to_pos(steps),
                        LAMBDA p : ~is_square_occupied_by_color(self, p, piece.color))
    IN  map(dests, LAMBDA to : Move_new(pos, to)) \o short_castling \o long_castling

\* knight jumps without the filter on cells occupied by the knight's color
available_moves_knight_unfiltered(self, piece, pos) ==
    LET o == from_pos(pos)
        steps == << left(up(o, 2), 1), right(up(o, 2), 1),
                    left(down(o, 2), 1), right(down(o, 2), 1),
                    left(up(o, 1), 2), right(up(o, 1), 2),
                    left(down(o, 1), 2), right(down(o, 1), 2) >>
    IN  map(filter_map_to_pos(steps), LAMBDA to : Move_new(pos, to))

available_moves_knight(self, piece, pos) ==
    LET o == from_pos(pos)
        steps == << left(up(o, 2), 1), right(up(o, 2), 1),
                    left(down(o, 2), 1), right(down(o, 2), 1),
                    left(up(o, 1), 2), right(up(o, 1), 2),
                    left(down(o, 1), 2), right(down(o, 1), 2) >>
        dests == filter(filter_map_to_pos(steps),
                        LAMBDA p : ~is_square_occupied_by_color(self, p, piece.color))
    IN  map(dests, LAMBDA to : Move_new(pos, to))

available_moves(self, piece, pos) ==
    CASE piece.kind = "Pawn" -> available_moves_pawn(self, piece, pos)
      [] piece.kind = "King" -> available_moves_king(self, piece, pos)
      [] piece.kind = "Bishop" ->
            map(diagonal_rays(self, piece, pos), LAMBDA to : Move_new(pos, to))
      [] piece.kind = "Knight" -> available_moves_knight(self, piece, pos)
      [] piece.kind = "Rook" ->
            map(vertical_rays(self, piece, pos) \o horizontal_rays(self, piece, pos),
                LAMBDA to : Move_new(pos, to))
      [] piece.kind = "Queen" ->
            map(vertical_rays(self, piece, pos) \o horizontal_rays(self, piece, pos)
                    \o diagonal_rays(self, piece, pos),
                LAMBDA to : Move_new(pos, to))

---------------------------------------------------------------------------
(* board/state.rs: attack detection, legality, terminal detection *)

is_attacked(self, pos, by) ==
    LET attackers == filter(pieces(self), LAMBDA pp : pp[1].color = by)
        attacks == filter(flatten(map(attackers,
                                      LAMBDA pp : available_moves(self, pp[1], pp[2]))),
                          LAMBDA mv : Move_to(mv) = Some(pos))
    IN  Len(attacks) > 0

\* the first king of `king_color` in pieces() order: Option<(Piece, Pos)>
find_king(self, king_color) ==
    LET kings == filter(pieces(self),
                        LAMBDA pp : pp[1].color = king_color /\ pp[1].kind = "King")
    IN  IF kings = <<>> THEN None ELSE Some(Head(kings))

\* is_king_attacked unwraps find_king: it panics on a board without that king;
\* callers in this module guard with find_king(...) # None.
is_king_attacked(self, king_color) ==
    LET king_pos == unwrap(find_king(self, king_color))[2]
    IN  is_attacked(self, king_pos, Not(king_color))

is_check(self, mv) ==
    LET side == self.turn
        next_state == make_move(clone(self), mv)
    IN  is_king_attacked(next_state, side)

castling_paths(side, rank) ==
    IF side = "Short"
    THEN [king_path |-> <<Pos(F, rank), Pos(G, rank)>>,
          rook_path |-> <<Pos(G, rank), Pos(F, rank)>>]
    ELSE [king_path |-> <<Pos(D, rank), Pos(C, rank)>>,
          rook_path |-> <<Pos(B, rank), Pos(C, rank), Pos(D, rank)>>]

is_legal_move(self, piece, mv) ==
    IF mv.tag = "Regular" THEN ~is_check(self, mv)
    ELSE LET rank == king_rank(piece.color)
             paths == castling_paths(mv.side, rank)
             is_king_path_blocked ==
                 \E i \in 1..Len(paths.king_path) :
                     is_square_occupied(self, paths.king_path[i])
             is_rook_path_blocked ==
                 \E i \in 1..Len(paths.rook_path) :
                     is_square_occupied(self, paths.rook_path[i])
             is_king_path_attacked ==
                 \E i \in 1..Len(paths.king_path) :
                     is_attacked(self, paths.king_path[i], Not(piece.color))
         IN  ~is_king_path_attacked /\ ~is_king_path_blocked /\ ~is_rook_path_blocked

\* legal_moves that also lists the move that leaves the piece where it is
legal_moves_with_null_move(self, piece, pos) ==
    Append(filter(available_moves(self, piece, pos),
                  LAMBDA mv : is_legal_move(self, piece, mv)),
           Move_new(pos, pos))

legal_moves(self, piece, pos) ==
    filter(available_moves(self, piece, pos), LAMBDA mv : is_legal_move(self, piece, mv))

\* the cell shown for a castle taken to be the rook's corner
highlighted_pos_rook_corner(piece, mv) ==
    IF mv.tag = "Regular" THEN mv.to
    ELSE Pos(IF mv.side = "Short" THEN H ELSE A, king_rank(piece.color))

\* the cell a legal move is shown on: its destination, or the king's cell
\* after the castle
highlighted_pos(piece, mv) ==
    IF mv.tag = "Regular" THEN mv.to
    ELSE CASE mv.side = "Short" /\ piece.color = "White" -> Pos(G, 1)
           [] mv.side = "Short" /\ piece.color = "Black" -> Pos(G, 8)
           [] mv.side = "Long" /\ piece.color = "White" -> Pos(C, 1)
           [] mv.side = "Long" /\ piece.color = "Black" -> Pos(C, 8)

\* self.squares[index].1 = true for every index of `shown`
highlight(self, shown) ==
    [self EXCEPT !.squares =
        [i \in 1..Len(self.squares) |->
            IF i \in shown THEN <<self.squares[i][1], TRUE>> ELSE self.squares[i]]]

hightlight_legal_moves(self, piece, pos) ==
    highlight(self,
              Range(map(legal_moves(self, piece, pos),
                        LAMBDA mv : square_index_by_pos(highlighted_pos(piece, mv)) + 1)))

\* stop_highlighting that also forgets the result of the game
stop_highlighting_forgetting_result(self) ==
    [self EXCEPT !.squares = map(self.squares, LAMBDA sq : <<sq[1], FALSE>>),
                 !.game_result = None]

stop_highlighting(self) ==
    [self EXCEPT !.squares = map(self.squares, LAMBDA sq : <<sq[1], FALSE>>)]

total_legal_moves(self, side) ==
    Len(flatten(map(filter(pieces(self), LAMBDA pp : pp[1].color = side),
                    LAMBDA pp : legal_moves(self, pp[1], pp[2]))))

\* is_checkmate without the test that the king is attacked
is_checkmate_no_attack_test(self, checkmated_side) ==
    total_legal_moves(self, checkmated_side) = 0

is_checkmate(self, checkmated_side) ==
    is_king_attacked(self, checkmated_side)
        /\ total_legal_moves(self, checkmated_side) = 0

\* is_stalemate without the test that no legal move is left
is_stalemate_no_move_test(self) == ~is_king_attacked(self, self.turn)

\* is_stalemate without the test that the king is not attacked
is_stalemate_no_attack_test(self) == total_legal_moves(self, self.turn) = 0

is_stalemate(self) ==
    ~is_king_attacked(self, self.turn) /\ total_legal_moves(self, self.turn) = 0

---------------------------------------------------------------------------
(* board/state.rs: SAN conversion *)

\* moves.rs san::FromPos and san::Move
FromPos_Square(pos) == [tag |-> "Square", pos |-> pos]

FromPos_File(file) == [tag |-> "File", file |-> file]

FromPos_Rank(rank) == [tag |-> "Rank", rank |-> rank]

San_Piece(piece, is_capture, from, to) ==
    [tag |-> "Piece", piece |-> piece, is_capture |-> is_capture,
     from |-> from, to |-> to]

San_PawnPush(to, promoted) == [tag |-> "PawnPush", to |-> to, promoted |-> promoted]

San_PawnCapture(from_file, from_rank, to, promoted) ==
    [tag |-> "PawnCapture", from_file |-> from_file, from_rank |-> from_rank,
     to |-> to, promoted |-> promoted]

San_Castling(side) == [tag |-> "Castling", side |-> side]

\* legal_moves(piece, pos) filtered by m.to() == Some(to). The two filters
\* commute, and the destination is tested first so that only the moves that
\* reach `to` are simulated.
legal_moves_to(self, piece, pos, to) ==
    filter(available_moves(self, piece, pos),
           LAMBDA mv : Move_to(mv) = Some(to) /\ is_legal_move(self, piece, mv))

\* the disambiguator chosen from the origins of the other pieces that reach
\* the destination
san_from_among(matching_moves, from) ==
    IF matching_moves = <<>> THEN None
    ELSE IF \E i \in 1..Len(matching_moves) : matching_moves[i].file # from.file
         THEN Some(FromPos_File(from.file))
    ELSE IF \A i \in 1..Len(matching_moves) : matching_moves[i].file = from.file
         THEN Some(FromPos_Rank(from.rank))
    ELSE Some(FromPos_Square(from))

\* the origin disambiguator to_san_move gives a non-pawn piece: Option<FromPos>
san_from(self, piece, from, to) ==
    LET count_same_pieces ==
            Len(filter(pieces(self),
                       LAMBDA pp : pp[1].kind = piece.kind /\ pp[1].color = piece.color))
        other_pieces ==
            filter(pieces(self),
                   LAMBDA pp : pp[2] # from /\ pp[1].kind = piece.kind
                               /\ pp[1].color = piece.color)
        matching_moves ==
            flatten(map(other_pieces,
                LAMBDA pp : map(legal_moves_to(self, pp[1], pp[2], to),
                                LAMBDA m : pp[2])))
    IN  IF count_same_pieces = 1 THEN None
        ELSE san_from_among(matching_moves, from)

\* The caller guarantees a piece on the move's origin (the code panics otherwise).
to_san_move(self, mv) ==
    IF mv.tag = "Castling" THEN San_Castling(mv.side)
    ELSE LET from == mv.from
             to == mv.to
             promoted == mv.promoted
             piece == square_by_pos(self, from)
             is_capture == is_square_occupied(self, to)
         IN  IF piece.kind \in {"King", "Queen", "Rook", "Bishop", "Knight"}
             THEN San_Piece(piece.kind, is_capture, san_from(self, piece, from, to), to)
             ELSE IF is_capture
                  THEN LET from_file == from.file
                           pawns_on_this_file ==
                               Len(filter(pieces(self),
                                   LAMBDA pp : pp[1].kind = "Pawn"
                                               /\ pp[1].color = piece.color
                                               /\ pp[2].file = from_file))
                           from_rank == IF pawns_on_this_file > 1
                                        THEN Some(from.rank) ELSE None
                       IN  San_PawnCapture(from_file, from_rank, to, promoted)
                  ELSE San_PawnPush(to, promoted)

\* The origins, in pieces() order, of the side to move's pieces of `kind` that
\* pass `restrict` and have a legal move to `to`.
\* `file`, `rank`: Option; at most one of them is given.
san_candidates(self, kind, to, file, rank) ==
    map(filter(filter(pieces(self),
                      LAMBDA pp : /\ pp[1].kind = kind
                                  /\ pp[1].color = self.turn
                                  /\ file # None => pp[2].file = unwrap(file)
                                  /\ rank # None => pp[2].rank = unwrap(rank)),
               LAMBDA pp : legal_moves_to(self, pp[1], pp[2], to) # <<>>),
        LAMBDA pp : pp[2])

\* Iterator::next on a fresh iterator: the first item, if any
first(s) == IF s = <<>> THEN None ELSE Some(Head(s))

\* .next(): Option<Pos>
find_possible_solution(self, kind, to, file, rank) ==
    first(san_candidates(self, kind, to, file, rank))

\* Move::new_with_promoted(from, to, promoted) once the origin is known; None
\* where .expect(...) panics on a search that found nothing
move_from(from, to, promoted) ==
    IF from = None THEN None ELSE Some(new_with_promoted(unwrap(from), to, promoted))

\* Option<Move>: None where the code panics on .expect(...)
from_san_move(self, mv) ==
    CASE mv.tag = "Castling" -> Some(castling(mv.side))
      [] mv.tag = "Piece" ->
            move_from(
                IF mv.from # None /\ unwrap(mv.from).tag = "Square"
                THEN Some(unwrap(mv.from).pos)
                ELSE IF mv.from # None /\ unwrap(mv.from).tag = "File"
                THEN find_possible_solution(self, mv.piece, mv.to,
                                            Some(unwrap(mv.from).file), None)
                ELSE IF mv.from # None /\ unwrap(mv.from).tag = "Rank"
                THEN find_possible_solution(self, mv.piece, mv.to,
                                            None, Some(unwrap(mv.from).rank))
                ELSE find_possible_solution(self, mv.piece, mv.to, None, None),
                mv.to, None)
      [] mv.tag = "PawnPush" ->
            move_from(first(san_candidates(self, "Pawn", mv.to, None, None)),
                      mv.to, mv.promoted)
      [] mv.tag = "PawnCapture" ->
            move_from(
                IF mv.from_rank # None
                THEN Some(Pos(mv.from_file, unwrap(mv.from_rank)))
                ELSE first(san_candidates(self, "Pawn", mv.to,
                                          Some(mv.from_file), None)),
                mv.to, mv.promoted)

---------------------------------------------------------------------------
(* The engine driven through its API: a caller asks for the legal moves of a  *)
(* piece of the side to move, picks one and applies it. The caller's picks    *)
(* are drawn from a book of (origin, destination) pairs; a pair from the      *)
(* king's home to G or C of its rank also stands for the castle of that side. *)

\* plies played from the starting position
MaxPlies == 18

\* plies played from a fixture placement
MaxFenPlies == 2

\* the square a pick of `mv` names as its destination
picked_square(piece, mv) ==
    IF mv.tag = "Regular" THEN mv.to
    ELSE Pos(IF mv.side = "Short" THEN G ELSE C, king_rank(piece.color))

\* the moves the book lets the caller pick for the piece on `from`: those of
\* available_moves(piece, from) that is_legal_move passes, i.e. of legal_moves
picked(self, piece, from, book) ==
    LET moves == filter(available_moves(self, piece, from),
                        LAMBDA mv : /\ <<from, picked_square(piece, mv)>> \in book
                                    /\ is_legal_move(self, piece, mv))
    IN  {moves[i] : i \in 1..Len(moves)}

\* a kingside development; Black's g-pawn walks down to h2 and takes on g1,
\* its king's bishop goes to b4 and its king steps to e7
CastleBook ==
    { <<Pos(G, 1), Pos(F, 3)>>, <<Pos(E, 2), Pos(E, 3)>>, <<Pos(F, 1), Pos(E, 2)>>,
      <<Pos(E, 3), Pos(E, 4)>>, <<Pos(D, 2), Pos(D, 3)>>, <<Pos(E, 1), Pos(G, 1)>>,
      <<Pos(H, 1), Pos(G, 1)>>, <<Pos(E, 1), Pos(F, 1)>>,
      <<Pos(G, 7), Pos(G, 5)>>, <<Pos(G, 5), Pos(G, 4)>>, <<Pos(G, 4), Pos(G, 3)>>,
      <<Pos(G, 3), Pos(H, 2)>>, <<Pos(H, 2), Pos(G, 1)>>,
      <<Pos(E, 7), Pos(E, 6)>>, <<Pos(F, 8), Pos(B, 4)>>, <<Pos(E, 8), Pos(E, 7)>> }

\* White's h-pawn promotes on h8 and the new piece comes back to g5, while the
\* queen's knight goes to d2; Black's queen's knight steps out and back
KnightBook ==
    { <<Pos(H, 2), Pos(H, 4)>>, <<Pos(H, 4), Pos(H, 5)>>, <<Pos(H, 5), Pos(H, 6)>>,
      <<Pos(H, 6), Pos(G, 7)>>, <<Pos(G, 7), Pos(H, 8)>>, <<Pos(H, 8), Pos(F, 7)>>,
      <<Pos(F, 7), Pos(G, 5)>>, <<Pos(D, 2), Pos(D, 3)>>, <<Pos(B, 1), Pos(D, 2)>>,
      <<Pos(B, 8), Pos(A, 6)>>, <<Pos(A, 6), Pos(B, 8)>>,
      <<Pos(G, 8), Pos(H, 6)>>, <<Pos(H, 6), Pos(G, 8)>> }

\* the picks played from a fixture: every move between two of these squares
FenSquares ==
    {Pos(f, r) : f \in 1..8, r \in {1, 7, 8}}
        \cup {Pos(B, 2), Pos(D, 2), Pos(E, 2), Pos(C, 4), Pos(H, 5), Pos(G, 6)}

FenBook == FenSquares \X FenSquares

\* kings and two pawns, each pawn one step from promoting
PROMOTION ==
    << "r","3","k","3", "/", "1","P","4","P","1", "/", "8", "/", "8", "/",
       "8", "/", "8", "/", "1","p","6", "/", "4","K","3" >>

\* the placements a board is loaded from, with the side given the move
Fixtures ==
    { [fen |-> FOOLS_MATE, turn |-> "Black"],
      [fen |-> FOOLS_MATE, turn |-> "White"],
      [fen |-> TWO_KINGS, turn |-> "White"],
      [fen |-> PROMOTION, turn |-> "White"],
      [fen |-> PROMOTION, turn |-> "Black"] }

\* how a call parse_fen(fen) ends: it returns the cells or it panics
call_parse_fen(fen) ==
    IF parse_fen(fen) = None
    THEN [fen |-> fen, status |-> "panicked", cells |-> <<>>]
    ELSE [fen |-> fen, status |-> "returned", cells |-> unwrap(parse_fen(fen))]

\* the board was built from `fen`; no move is recorded and no iterator is run
Built(fen) ==
    /\ placement = fen
    /\ parsed = call_parse_fen(fen)
    /\ moves_list = <<>>
    /\ test = [v |-> <<>>, it |-> TakeWhileInclusive_new(<<>>, {}), r |-> <<>>,
               ended |-> FALSE]

Init ==
    /\ board = BoardState_new
    /\ Built(STARTING_POSITION)
    /\ last_mv = None
    /\ n_moves = 0

InitFen ==
    \E fx \in Fixtures :
        /\ board = [BoardState_from(unwrap(parse_fen(fx.fen))) EXCEPT !.turn = fx.turn]
        /\ Built(fx.fen)
        /\ last_mv = None
        /\ n_moves = 0

\* legal_moves unwraps the king of the side to move: without one the call
\* panics and nothing is applied.
Play(book, max) ==
    /\ n_moves < max
    /\ find_king(board, board.turn) # None
    /\ \E from \in {e[1] : e \in book} :
         LET piece == square_by_pos(board, from)
         IN  /\ piece # Empty
             /\ piece.color = board.turn
             /\ \E mv \in picked(board, piece, from, book) :
                  /\ board' = make_move(board, mv)
                  /\ last_mv' = Some(mv)
                  /\ n_moves' = n_moves + 1
                  /\ UNCHANGED <<placement, moves_list, test, parsed>>

Next == Play(CastleBook, MaxPlies)

Spec == Init /\ [][Next]_vars

NextKnights == Play(KnightBook, MaxPlies)

SpecKnights == Init /\ [][NextKnights]_vars

NextFen == Play(FenBook, MaxFenPlies)

SpecFen == InitFen /\ [][NextFen]_vars

---------------------------------------------------------------------------
(* main.rs: the game loop. App::update handles one click on a square: with   *)
(* no piece selected it selects a piece of the side to move and highlights   *)
(* its legal moves; with a piece selected it builds the move to the clicked  *)
(* square, applies it when it is legal and detects the end of the game.      *)

WinByCheckmate(checkmated_side) ==
    [tag |-> "WinByCheckmate", checkmated_side |-> checkmated_side]

DrawByStalemate == [tag |-> "DrawByStalemate"]

\* the move a click on `pos` stands for when `piece` on `from` is selected
clicked_move(self, piece, from, pos) ==
    IF piece.kind = "King"
    THEN IF /\ from = king_home(piece.color)
            /\ pos = Pos(G, king_rank(piece.color))
            /\ is_castling_possible(self, "Short")
         THEN castling("Short")
         ELSE IF /\ from = king_home(piece.color)
                 /\ pos = Pos(C, king_rank(piece.color))
                 /\ is_castling_possible(self, "Long")
         THEN castling("Long")
         ELSE Move_new(from, pos)
    ELSE IF piece.kind = "Pawn" /\ pos.rank = king_rank(Not(piece.color))
    THEN new_with_promoted(from, pos, Some("Queen"))
    ELSE Move_new(from, pos)

\* terminal detection after a move, first step: checkmate of the side to move
detect_checkmate(self) ==
    IF is_checkmate(self, self.turn)
    THEN [self EXCEPT !.game_result = Some(WinByCheckmate(self.turn))]
    ELSE self

\* terminal detection after a move, second step: stalemate
detect_stalemate(self) ==
    IF is_stalemate(self)
    THEN [self EXCEPT !.game_result = Some(DrawByStalemate)]
    ELSE self

\* moves applied by clicks from the starting position
MaxClickPlies == 4

\* the squares of the shortest mate, 1. f3 e5 2. g4 Qh4#, and those of the
\* king's pawn and queen's pawn openings
ClickSquares ==
    { Pos(F, 2), Pos(F, 3), Pos(E, 7), Pos(E, 5),
      Pos(G, 2), Pos(G, 4), Pos(D, 8), Pos(H, 4),
      Pos(E, 2), Pos(E, 4), Pos(D, 7), Pos(D, 5) }

\* a handler that applies the move to the clicked square without asking
\* available_moves and is_legal_move, and without the round trip
ClickOnDestination_unchecked(taken, piece, from, pos) ==
    \E mv \in {clicked_move(taken, piece, from, pos)} :
        /\ n_moves < MaxClickPlies
        /\ \E moved \in {make_move(taken, mv)} :
           \E checked \in {detect_checkmate(moved)} :
               board' = detect_stalemate(checked)
        /\ last_mv' = Some(mv)
        /\ n_moves' = n_moves + 1
        /\ UNCHANGED <<placement, moves_list, test, parsed>>

\* the second click: the move from the selected piece to `pos` is applied when
\* it is legal. The round trip's assert_eq! panics when it fails: the handler
\* then has no next state.
ClickOnDestination(taken, piece, from, pos) ==
    \E mv \in {clicked_move(taken, piece, from, pos)} :
        IF /\ contains(available_moves(taken, piece, from), mv)
           /\ is_legal_move(taken, piece, mv)
        THEN \E san_move \in {to_san_move(taken, mv)} :
                 /\ n_moves < MaxClickPlies
                 /\ from_san_move(taken, san_move) = Some(mv)
                 /\ \E moved \in {make_move(taken, mv)} :
                    \E checked \in {detect_checkmate(moved)} :
                        board' = detect_stalemate(checked)
                 /\ moves_list' = Append(moves_list, san_move)
                 /\ last_mv' = Some(mv)
                 /\ n_moves' = n_moves + 1
                 /\ UNCHANGED <<placement, test, parsed>>
        ELSE /\ board' = taken
             /\ UNCHANGED <<placement, last_mv, n_moves, moves_list, test, parsed>>

\* the first click: a piece of the side to move is selected and its legal
\* moves are highlighted
ClickOnPiece(stopped, pos) ==
    /\ \E piece \in {square_by_pos(stopped, pos)} :
           board' = IF piece # Empty /\ piece.color = stopped.turn
                    THEN hightlight_legal_moves(
                             [stopped EXCEPT !.selected_piece = Some(<<piece, pos>>)],
                             piece, pos)
                    ELSE stopped
    /\ UNCHANGED <<placement, last_mv, n_moves, moves_list, test, parsed>>

\* Message::ClickOnSquare(pos)
ClickOnSquare(pos) ==
    \E stopped \in {stop_highlighting(board)} :
        IF stopped.selected_piece # None
        THEN ClickOnDestination([stopped EXCEPT !.selected_piece = None],
                                unwrap(stopped.selected_piece)[1],
                                unwrap(stopped.selected_piece)[2], pos)
        ELSE ClickOnPiece(stopped, pos)

NextClicks == \E pos \in ClickSquares : ClickOnSquare(pos)

SpecClicks == Init /\ [][NextClicks]_vars

---------------------------------------------------------------------------
(* fen.rs: parse_fen called on an arbitrary placement string *)

\* characters of the placement strings given to parse_fen
MaxFenLen == 2

\* a piece of each color, digits inside and outside 1..8, a letter that is no
\* piece, and the separator
FenChars == {"p", "K", "8", "1", "9", "0", "x", "/"}

RECURSIVE Strings(_, _)
Strings(chars, n) ==
    IF n = 0 THEN {<<>>}
    ELSE Strings(chars, n - 1)
         \cup {Append(str, ch) : str \in Strings(chars, n - 1), ch \in chars}

InitParse ==
    /\ board = BoardState_new
    /\ \E fen \in Strings(FenChars, MaxFenLen) :
          /\ placement = fen
          /\ parsed = [fen |-> fen, status |-> "pending", cells |-> <<>>]
    /\ moves_list = <<>>
    /\ test = [v |-> <<>>, it |-> TakeWhileInclusive_new(<<>>, {}),
               r |-> <<>>, ended |-> FALSE]
    /\ last_mv = None
    /\ n_moves = 0

ParseFen ==
    /\ parsed.status = "pending"
    /\ parsed' = call_parse_fen(parsed.fen)
    /\ UNCHANGED <<board, placement, last_mv, n_moves, moves_list, test>>

NextParse == ParseFen

SpecParse == InitParse /\ [][NextParse]_vars

---------------------------------------------------------------------------
(* take_while.rs: the adaptor drained one next() at a time, as collect() does *)

\* items of the vectors the adaptor is built on
MaxTestLen == 3

TestItems == {2, 4, 9}

\* the vector of the module's unit test
TestVector == <<2, 4, 6, 9, 10>>

\* |x: &i32| *x % 2 == 0, as the set of the items it accepts
is_even == {x \in 0..10 : x % 2 = 0}

InitTakeWhile ==
    /\ board = BoardState_new
    /\ placement = STARTING_POSITION
    /\ parsed = call_parse_fen(STARTING_POSITION)
    /\ moves_list = <<>>
    /\ \E x \in Strings(TestItems, MaxTestLen) \cup {TestVector} :
          test = [v |-> x, it |-> TakeWhileInclusive_new(x, is_even),
                  r |-> <<>>, ended |-> FALSE]
    /\ last_mv = None
    /\ n_moves = 0

\* one next() of collect(): the item is pushed, or None ends the collection
TakeNext ==
    /\ ~test.ended
    /\ LET got == TakeWhileInclusive_next(test.it)
       IN  test' = [v |-> test.v,
                    it |-> got[2],
                    r |-> IF got[1] = None THEN test.r
                          ELSE Append(test.r, unwrap(got[1])),
                    ended |-> got[1] = None]
    /\ UNCHANGED <<board, placement, last_mv, n_moves, moves_list, parsed>>

NextTakeWhile == TakeNext

SpecTakeWhile == InitTakeWhile /\ [][NextTakeWhile]_vars

---------------------------------------------------------------------------
(* A game where a rook is taken on its corner: 1. e3 b6 2. Be2 Bb7 3. Nh3    *)
(* Bxg2 4. e4 Bxh1, with a few quiet moves on the side                        *)

\* plies played from the starting position with the corner book
MaxCornerPlies == 9

CornerBook ==
    { <<Pos(E, 2), Pos(E, 3)>>, <<Pos(F, 1), Pos(E, 2)>>, <<Pos(G, 1), Pos(H, 3)>>,
      <<Pos(E, 3), Pos(E, 4)>>, <<Pos(E, 1), Pos(G, 1)>>, <<Pos(D, 2), Pos(D, 3)>>,
      <<Pos(B, 7), Pos(B, 6)>>, <<Pos(C, 8), Pos(B, 7)>>, <<Pos(B, 7), Pos(G, 2)>>,
      <<Pos(G, 2), Pos(H, 1)>>, <<Pos(A, 7), Pos(A, 6)>> }

NextCorner == Play(CornerBook, MaxCornerPlies)

SpecCorner == Init /\ [][NextCorner]_vars

---------------------------------------------------------------------------
(* The click handler in a middle game where both sides may castle on either  *)
(* side: 1. e4 e5 2. Nf3 Nc6 3. Nc3 Nf6 4. d3 d6 5. Be3 Be6 6. Be2 Be7       *)
(* 7. Qd2 Qd7 is played first, then the back ranks are clicked.              *)

CASTLE_OPENING ==
    << Move_new(Pos(E, 2), Pos(E, 4)), Move_new(Pos(E, 7), Pos(E, 5)),
       Move_new(Pos(G, 1), Pos(F, 3)), Move_new(Pos(B, 8), Pos(C, 6)),
       Move_new(Pos(B, 1), Pos(C, 3)), Move_new(Pos(G, 8), Pos(F, 6)),
       Move_new(Pos(D, 2), Pos(D, 3)), Move_new(Pos(D, 7), Pos(D, 6)),
       Move_new(Pos(C, 1), Pos(E, 3)), Move_new(Pos(C, 8), Pos(E, 6)),
       Move_new(Pos(F, 1), Pos(E, 2)), Move_new(Pos(F, 8), Pos(E, 7)),
       Move_new(Pos(D, 1), Pos(D, 2)), Move_new(Pos(D, 8), Pos(D, 7)) >>

\* the kings' squares, the squares they castle to or step to, and d1
CastleClickSquares ==
    {Pos(f, r) : f \in {C, E, F, G}, r \in {1, 8}} \cup {Pos(D, 1)}

\* the next move of the opening is applied, as the handler applies a legal
\* move; n_moves counts the moves applied after the opening
PlayOpening ==
    \E mv \in {CASTLE_OPENING[Len(moves_list) + 1]} :
        /\ contains(legal_moves(board, square_by_pos(board, mv.from), mv.from), mv)
        /\ board' = make_move(board, mv)
        /\ moves_list' = Append(moves_list, to_san_move(board, mv))
        /\ last_mv' = Some(mv)
        /\ UNCHANGED <<placement, n_moves, test, parsed>>

NextCastleClicks ==
    IF Len(moves_list) < Len(CASTLE_OPENING)
    THEN PlayOpening
    ELSE \E pos \in CastleClickSquares : ClickOnSquare(pos)

SpecCastleClicks == Init /\ [][NextCastleClicks]_vars

---------------------------------------------------------------------------
(* Endgames: boards with few pieces, one move away from a mate or a stalemate *)

\* plies played from an endgame placement
MaxEndPlies == 3

\* two rooks against the bare king on h8: Rb8 mates
LADDER ==
    << "7","k", "/", "R","7", "/", "8", "/", "8", "/", "8", "/", "8", "/",
       "8", "/", "K","R","6" >>

\* king and queen against the bare king on h8: Qf7 leaves Black no move
QUEEN_END ==
    << "7","k", "/", "2","K","1","Q","3", "/", "8", "/", "8", "/", "8", "/",
       "8", "/", "8", "/", "8" >>

EndFixtures ==
    { [fen |-> LADDER, turn |-> "White"], [fen |-> QUEEN_END, turn |-> "White"] }

EndSquares ==
    {Pos(f, r) : f \in 2..8, r \in {7, 8}} \cup {Pos(A, 7), Pos(B, 1)}

EndBook == EndSquares \X EndSquares

InitEnd ==
    \E fx \in EndFixtures :
        /\ board = [BoardState_from(unwrap(parse_fen(fx.fen))) EXCEPT !.turn = fx.turn]
        /\ Built(fx.fen)
        /\ last_mv = None
        /\ n_moves = 0

NextEnd == Play(EndBook, MaxEndPlies)

SpecEnd == InitEnd /\ [][NextEnd]_vars

---------------------------------------------------------------------------
(* Properties *)

\* the state was entered by make_move of `mv`
applied(mv) == last_mv = Some(mv)

kings_of(self, color) ==
    filter(pieces(self), LAMBDA pp : pp[1].color = color /\ pp[1].kind = "King")

\* C1: SAN round trip. In every state reached from the starting position by
\* legal moves, for every piece of the side to move and every move m of its
\* legal_moves, from_san_move(to_san_move(m)) returns exactly m.
C1_SanRoundTrip ==
    find_king(board, board.turn) # None =>
        LET ps == pieces(board)
        IN  \A i \in 1..Len(ps) :
                ps[i][1].color = board.turn =>
                    LET lm == legal_moves(board, ps[i][1], ps[i][2])
                    IN  \A j \in 1..Len(lm) :
                            from_san_move(board, to_san_move(board, lm[j])) = Some(lm[j])

\* C2: Regular-move legality. For every piece p on the board, of either
\* color, and every Regular move m of available_moves(p, s), is_legal_move(p, m)
\* is true iff the king of p's own color is not attacked in the position that
\* make_move(m) gives on a copy of the board. (Stated where the code's verdict
\* exists: both kings it may look for stand on the copy.)
C2_RegularLegality ==
    LET ps == pieces(board)
    IN  \A i \in 1..Len(ps) :
            LET p == ps[i][1]
                am == available_moves(board, p, ps[i][2])
            IN  \A j \in 1..Len(am) :
                    am[j].tag = "Regular" =>
                        LET next_state == make_move(clone(board), am[j])
                        IN  (/\ find_king(next_state, p.color) # None
                             /\ find_king(next_state, board.turn) # None)
                                => (is_legal_move(board, p, am[j])
                                        <=> ~is_king_attacked(next_state, p.color))

\* C3: Castle legality. is_legal_move(king, Castling{side}) is true iff the
\* king's transit cells are unoccupied, the rook's transit cells are
\* unoccupied, and no cell of the king's path, its origin E and its destination
\* included, is attacked by the opponent.
C3_CastleLegality ==
    \A color \in PieceColor, side \in {"Short", "Long"} :
        LET rank == king_rank(color)
            paths == castling_paths(side, rank)
            king_cells == <<Pos(E, rank)>> \o paths.king_path
        IN  is_legal_move(board, Piece("King", color), castling(side))
                <=> /\ \A i \in 1..Len(paths.king_path) :
                           ~is_square_occupied(board, paths.king_path[i])
                    /\ \A i \in 1..Len(paths.rook_path) :
                           ~is_square_occupied(board, paths.rook_path[i])
                    /\ \A i \in 1..Len(king_cells) :
                           ~is_attacked(board, king_cells[i], Not(color))

\* C4: King invariant. In every state reached from the starting position by
\* moves that each passed available_moves and is_legal_move for a piece of the
\* side to move, the board holds exactly one White king and one Black king.
C4_OneKingPerColor ==
    \A color \in PieceColor : Len(kings_of(board, color)) = 1

\* C5: Ply counter. After make_move of a Regular move the counter is 0 if the
\* destination was occupied before the move or the moved piece is a Pawn, and
\* otherwise its previous value plus exactly 1.
C5_PlyCounter ==
    [][(n_moves' = n_moves + 1 /\ unwrap(last_mv').tag = "Regular") =>
           LET mv == unwrap(last_mv')
               was_capture == is_square_occupied(board, mv.to)
               is_pawn_move == square_by_pos(board, mv.from).kind = "Pawn"
           IN  board'.plies_since_last_non_repeatable_move =
                   IF was_capture \/ is_pawn_move
                   THEN 0
                   ELSE board.plies_since_last_non_repeatable_move + 1]_vars

\* every move available_moves gives a piece on the board, of either color
all_available_moves(self) ==
    flatten(map(pieces(self), LAMBDA pp : available_moves(self, pp[1], pp[2])))

\* C6: Turn alternation. Every make_move, Regular or Castling, flips the side
\* to move, and increases move_number by 1 iff the new side to move is White,
\* leaving it unchanged otherwise; after n moves from the start the side to
\* move is White iff n is even.
C6_TurnAlternation ==
    /\ board.turn = "White" <=> n_moves % 2 = 0
    /\ LET am == all_available_moves(board)
       IN  \A i \in 1..Len(am) :
               LET next_state == make_move(board, am[i])
               IN  /\ next_state.turn = Not(board.turn)
                   /\ next_state.turn # board.turn
                   /\ next_state.move_number =
                          IF next_state.turn = "White"
                          THEN board.move_number + 1
                          ELSE board.move_number

\* C6 witness: White has castled short on its fifth move and Black is to move
C6_AfterCastling ==
    /\ applied(castling("Short"))
    /\ n_moves = 9
    /\ board.turn = "Black"
    /\ board.move_number = 5

CastlingFlags == {"king_moved", "rook_moved_short", "rook_moved_long"}

\* no flag of `before` is lost in `after`
flags_kept(before, after) ==
    \A color \in PieceColor, flag \in CastlingFlags :
        castling_of(before, color)[flag] => castling_of(after, color)[flag]

\* the king of `color`, if castling_of(color).king_moved, is offered no castle
no_castling_once_king_moved(self, color) ==
    castling_of(self, color).king_moved =>
        /\ \A i \in 1..Len(kings_of(self, color)) :
               LET am == available_moves(self, kings_of(self, color)[i][1],
                                         kings_of(self, color)[i][2])
               IN  \A j \in 1..Len(am) : am[j].tag # "Castling"
        /\ self.turn = color =>
               /\ ~is_castling_possible(self, "Short")
               /\ ~is_castling_possible(self, "Long")

\* C7: Castling rights are monotonic. Across make_move and across clone no
\* flag of either color goes from true back to false; a make_move that moves a
\* king sets the king_moved flag of its color; and once it is set neither
\* castle is generated for that color's king or reported possible.
C7_CastlingMonotonic ==
    /\ [][flags_kept(board, board')]_vars
    /\ [][(n_moves' = n_moves + 1
           /\ (unwrap(last_mv').tag = "Castling"
               \/ square_by_pos(board, unwrap(last_mv').from).kind = "King"))
          => castling_of(board', board.turn).king_moved]_vars
    /\ [](/\ flags_kept(board, clone(board))
          /\ flags_kept(clone(board), board)
          /\ \A color \in PieceColor : no_castling_once_king_moved(board, color)
          /\ LET am == all_available_moves(board)
             IN  \A i \in 1..Len(am) :
                     /\ flags_kept(board, make_move(board, am[i]))
                     /\ flags_kept(board, make_move(clone(board), am[i])))

\* C7 witness: the White king has stepped from e1 to f1, and afterwards the
\* rook has left h1, with White to move again
C7_KingThenRookMoved ==
    /\ board.castling_white.king_moved
    /\ board.castling_white.rook_moved_short
    /\ square_by_pos(board, Pos(F, 1)) = Piece("King", "White")
    /\ square_by_pos(board, Pos(G, 1)) = Piece("Rook", "White")
    /\ board.turn = "White"

\* the state the board has when loaded from the placement `fen`
loaded(fen) == placement = fen /\ n_moves = 0

\* C8 as stated: on the board loaded from FOOLS_MATE with Black to move,
\* is_checkmate(Black) is true.
C8_FoolsMateIsCheckmate ==
    (loaded(FOOLS_MATE) /\ board.turn = "Black") => is_checkmate(board, "Black")

\* C8 amended: on the board loaded from FOOLS_MATE with Black to move,
\* is_checkmate(Black) is false: the Black king is not attacked (the pawn on f7
\* stands between the queen on h5 and e8) and Black has legal moves.
C8_FoolsMateIsNotCheckmate ==
    (loaded(FOOLS_MATE) /\ board.turn = "Black") =>
        /\ ~is_checkmate(board, "Black")
        /\ ~is_king_attacked(board, "Black")
        /\ total_legal_moves(board, "Black") > 0

\* C8 witness: the FOOLS_MATE board with Black to move
C8_FoolsMateLoaded ==
    /\ loaded(FOOLS_MATE)
    /\ board.turn = "Black"
    /\ square_by_pos(board, Pos(H, 5)) = Piece("Queen", "White")
    /\ square_by_pos(board, Pos(C, 4)) = Piece("Bishop", "White")
    /\ square_by_pos(board, Pos(F, 7)) = Piece("Pawn", "Black")
    /\ find_king(board, "Black") = Some(<<Piece("King", "Black"), Pos(E, 8)>>)

\* the Regular moves of the king on `pos` to its on-board adjacent empty cells
adjacent_empty_moves(self, pos) ==
    {Move_new(pos, to) :
        to \in {q \in AllPos : /\ q # pos
                               /\ q.file - pos.file \in {-1, 0, 1}
                               /\ q.rank - pos.rank \in {-1, 0, 1}
                               /\ ~is_square_occupied(self, q)}}

\* the set of the moves available_moves gives the king of `color`
king_moves(self, color) ==
    LET king == unwrap(find_king(self, color))
        am == available_moves(self, king[1], king[2])
    IN  {am[i] : i \in 1..Len(am)}

\* neither color is checkmated and the side to move is not stalemated
no_terminal(self) ==
    /\ ~is_checkmate(self, "White")
    /\ ~is_checkmate(self, "Black")
    /\ ~is_stalemate(self)

\* C9 as stated: on the board loaded from TWO_KINGS no color is checkmated,
\* there is no stalemate, and available_moves of each king is exactly the
\* Regular moves to its on-board adjacent empty squares, with no other move.
C9_TwoKingsAdjacentOnly ==
    loaded(TWO_KINGS) =>
        /\ no_terminal(board)
        /\ \A color \in PieceColor :
               king_moves(board, color) =
                   adjacent_empty_moves(board, unwrap(find_king(board, color))[2])

\* C9 amended: on the board loaded from TWO_KINGS no color is checkmated,
\* there is no stalemate, and available_moves of each king is the Regular moves
\* to its on-board adjacent empty squares, each once, followed by the two
\* castling pseudo-moves Short and Long that the fresh castling flags allow.
C9_TwoKingsAdjacentAndCastling ==
    loaded(TWO_KINGS) =>
        /\ no_terminal(board)
        /\ \A color \in PieceColor :
               LET king == unwrap(find_king(board, color))
                   am == available_moves(board, king[1], king[2])
                   adjacent == adjacent_empty_moves(board, king[2])
               IN  /\ king_moves(board, color)
                          = adjacent \cup {castling("Short"), castling("Long")}
                   /\ Len(am) = Cardinality(adjacent) + 2
                   /\ SubSeq(am, Len(am) - 1, Len(am))
                          = <<castling("Short"), castling("Long")>>

\* C9 witness: the TWO_KINGS board, kings on e8 and d1, five cells next to each
C9_TwoKingsLoaded ==
    /\ loaded(TWO_KINGS)
    /\ Len(pieces(board)) = 2
    /\ find_king(board, "Black") = Some(<<Piece("King", "Black"), Pos(E, 8)>>)
    /\ find_king(board, "White") = Some(<<Piece("King", "White"), Pos(D, 1)>>)
    /\ Cardinality(adjacent_empty_moves(board, Pos(E, 8))) = 5
    /\ Cardinality(adjacent_empty_moves(board, Pos(D, 1))) = 5

PromotionTargets == {"Queen", "Rook", "Bishop", "Knight"}

\* the pawns on the board with their squares
pawns(self) == filter(pieces(self), LAMBDA pp : pp[1].kind = "Pawn")

\* C10: Promotion split. For a pawn of either color, every destination that
\* available_moves generates on the opponent's back rank appears as exactly
\* four Regular moves, one per promotion target, and never as a move without a
\* promotion target; a White pawn on g7 with f8, g8, h8 empty has exactly 4
\* moves.
C10_PromotionSplit ==
    LET pw == pawns(board)
    IN  \A i \in 1..Len(pw) :
            LET piece == pw[i][1]
                pos == pw[i][2]
                am == available_moves(board, piece, pos)
                back_rank == king_rank(Not(piece.color))
            IN  /\ \A j \in 1..Len(am) :
                       (am[j].tag = "Regular" /\ am[j].to.rank = back_rank) =>
                           LET same == {k \in 1..Len(am) :
                                           /\ am[k].tag = "Regular"
                                           /\ am[k].to = am[j].to}
                           IN  /\ Cardinality(same) = 4
                               /\ \A k \in same : am[k].from = pos
                               /\ {am[k].promoted : k \in same}
                                      = {Some(t) : t \in PromotionTargets}
                /\ (/\ piece.color = "White"
                    /\ pos = Pos(G, 7)
                    /\ \A f \in {F, G, H} : ~is_square_occupied(board, Pos(f, 8)))
                       => Len(am) = 4

\* C10 witness: the PROMOTION board: the pawn on g7 has the four moves to g8,
\* the pawn on b7 four to b8 and four that take the rook on a8, and the Black
\* pawn on b2 four to b1
C10_PawnsBeforePromotion ==
    /\ loaded(PROMOTION)
    /\ Len(available_moves(board, Piece("Pawn", "White"), Pos(G, 7))) = 4
    /\ Len(available_moves(board, Piece("Pawn", "White"), Pos(B, 7))) = 8
    /\ Len(available_moves(board, Piece("Pawn", "Black"), Pos(B, 2))) = 4
    /\ \A f \in {F, G, H} : ~is_square_occupied(board, Pos(f, 8))

\* both kings stand on the board
kings_present(self) ==
    find_king(self, "White") # None /\ find_king(self, "Black") # None

\* is_checkmate(color) returns: the kings it unwraps are found, on the board
\* and on every copy that legal_moves plays a move of `color` on (a piece that
\* is not of the side to move may take the king of the side to move there)
is_checkmate_returns(self, color) ==
    /\ kings_present(self)
    /\ color = self.turn \/ ~is_king_attacked(self, self.turn)

\* no piece of `color` has a legal move
no_legal_move(self, color) ==
    LET ps == filter(pieces(self), LAMBDA pp : pp[1].color = color)
    IN  \A i \in 1..Len(ps) : legal_moves(self, ps[i][1], ps[i][2]) = <<>>

\* C11: Checkmate soundness. For every board state and color c, if
\* is_checkmate(c) is true then the king of c is attacked by the opposite color
\* and legal_moves is empty for every piece of c.
C11_CheckmateSound ==
    \A color \in PieceColor :
        (is_checkmate_returns(board, color) /\ is_checkmate(board, color)) =>
            /\ is_attacked(board, unwrap(find_king(board, color))[2], Not(color))
            /\ no_legal_move(board, color)

\* C11 witness: Rb1-b8 has mated the king on h8
C11_LadderMate ==
    /\ applied(Move_new(Pos(B, 1), Pos(B, 8)))
    /\ placement = LADDER
    /\ board.turn = "Black"
    /\ is_checkmate(board, "Black")

\* C12: Stalemate soundness. If is_stalemate() is true then the king of the
\* side to move is not attacked and no piece of the side to move has a legal
\* move; so is_stalemate() and is_checkmate(side to move) are never both true.
C12_StalemateSound ==
    kings_present(board) =>
        /\ is_stalemate(board) =>
               /\ ~is_attacked(board, unwrap(find_king(board, board.turn))[2],
                               Not(board.turn))
               /\ no_legal_move(board, board.turn)
        /\ ~(is_stalemate(board) /\ is_checkmate(board, board.turn))

\* C12 witness: Qe7-f7 has left the king on h8 unattacked and without a move
C12_QueenStalemate ==
    /\ applied(Move_new(Pos(E, 7), Pos(F, 7)))
    /\ placement = QUEEN_END
    /\ board.turn = "Black"
    /\ is_stalemate(board)

\* C13: Subset law. Every move returned by legal_moves(p, s) is also returned
\* by available_moves(p, s) (legal_moves returns for the pieces of a color
\* where is_checkmate of that color does).
C13_LegalSubset ==
    LET ps == pieces(board)
        returns == {color \in PieceColor : is_checkmate_returns(board, color)}
    IN  \A i \in 1..Len(ps) :
            ps[i][1].color \in returns =>
                Range(legal_moves(board, ps[i][1], ps[i][2]))
                    \subseteq Range(available_moves(board, ps[i][1], ps[i][2]))

\* C13 witness: after a move, a piece of the side to move has a legal move and
\* a pseudo-legal move that is not legal
C13_StrictSubset ==
    /\ n_moves > 0
    /\ kings_present(board)
    /\ LET ps == pieces(board)
       IN  \E i \in 1..Len(ps) :
               /\ ps[i][1].color = board.turn
               /\ LET legal == legal_moves(board, ps[i][1], ps[i][2])
                      available == available_moves(board, ps[i][1], ps[i][2])
                  IN  0 < Len(legal) /\ Len(legal) < Len(available)

\* C14: Pseudo-legal closure. Every Regular move in available_moves(p, s) has
\* origin s, a destination on the board and different from s, and a
\* destination not occupied by a piece of p's color.
C14_PseudoLegalClosure ==
    LET ps == pieces(board)
    IN  \A i \in 1..Len(ps) :
            LET available == available_moves(board, ps[i][1], ps[i][2])
            IN  \A j \in 1..Len(available) :
                    available[j].tag = "Regular" =>
                        /\ available[j].from = ps[i][2]
                        /\ available[j].to \in AllPos
                        /\ available[j].to # ps[i][2]
                        /\ ~is_square_occupied_by_color(board, available[j].to,
                                                        ps[i][1].color)

\* C14 witness: a rook off its corner has a capture among its Regular moves
C14_RookCaptureOffered ==
    LET ps == pieces(board)
    IN  \E i \in 1..Len(ps) :
            /\ ps[i][1].kind = "Rook"
            /\ ps[i][2].file \notin {A, H}
            /\ LET available == available_moves(board, ps[i][1], ps[i][2])
               IN  \E j \in 1..Len(available) :
                       /\ available[j].tag = "Regular"
                       /\ is_square_occupied_by_color(board, available[j].to,
                                                      Not(ps[i][1].color))

\* C15: Terminal result is sticky. In the game loop (click handling and
\* terminal detection), once game_result is Some(r) it is never reset to None.
C15_ResultSticky ==
    [][board.game_result # None => board'.game_result # None]_vars

\* C15 witness: after 1. f3 e5 2. g4 Qh4# the result is the checkmate of
\* White, and a later click has selected a white piece
C15_ClickAfterCheckmate ==
    /\ board.game_result = Some(WinByCheckmate("White"))
    /\ board.selected_piece # None
    /\ n_moves = 4

\* the characters the placement format admits: the separator, the digits 1
\* to 8 and the piece letters in either case
PlacementChars ==
    {"/"} \cup {"1", "2", "3", "4", "5", "6", "7", "8"}
          \cup {"p", "k", "q", "r", "b", "n"} \cup {"P", "K", "Q", "R", "B", "N"}

\* C16: parse_fen fails on any character, other than the rank separator '/',
\* that is not a digit 1-8 and not one of p, k, q, r, b, n in either case; it
\* never returns a cell sequence for an input containing such a character.
C16_RejectsOtherChars ==
    (/\ parsed.status # "pending"
     /\ \E i \in 1..Len(parsed.fen) : parsed.fen[i] \notin PlacementChars)
        => parsed.status = "panicked"

\* the candidate set of a non-castling SAN move: the origins of the pieces of
\* the move's kind and of the side to move, restricted by the file, rank or
\* square the move gives, that have a legal move to its destination
candidate_set(self, mv) ==
    LET kind == IF mv.tag = "Piece" THEN mv.piece ELSE "Pawn"
        restricted(pos) ==
            CASE mv.tag = "PawnPush" -> TRUE
              [] mv.tag = "PawnCapture" ->
                    /\ pos.file = mv.from_file
                    /\ mv.from_rank # None => pos.rank = unwrap(mv.from_rank)
              [] mv.from = None -> TRUE
              [] unwrap(mv.from).tag = "File" -> pos.file = unwrap(mv.from).file
              [] unwrap(mv.from).tag = "Rank" -> pos.rank = unwrap(mv.from).rank
              [] unwrap(mv.from).tag = "Square" -> pos = unwrap(mv.from).pos
        ps == pieces(self)
    IN  {ps[i][2] : i \in {j \in 1..Len(ps) :
                             /\ ps[j][1].kind = kind
                             /\ ps[j][1].color = self.turn
                             /\ restricted(ps[j][2])
                             /\ legal_moves_to(self, ps[j][1], ps[j][2], mv.to) # <<>>}}

\* SAN moves given to from_san_move: knight and rook moves to d2 and a5 with
\* every kind of origin, a pawn push and a pawn capture with its origin rank
SanInputs ==
    {San_Piece(kind, FALSE, from, to) :
        kind \in {"Knight", "Rook"},
        from \in {None, Some(FromPos_File(B)), Some(FromPos_Rank(1)),
                  Some(FromPos_Square(Pos(A, 1)))},
        to \in {Pos(D, 2), Pos(A, 5)}}
    \cup {San_PawnPush(Pos(E, 4), None),
          San_PawnCapture(D, Some(2), Pos(E, 3), None)}

\* C17: from_san_move of a non-castling SAN move fails whenever the candidate
\* set does not contain exactly one piece; it returns a move only when there
\* is exactly one candidate.
C17_UniqueCandidate ==
    \A mv \in SanInputs :
        from_san_move(board, mv) # None =>
            Cardinality(candidate_set(board, mv)) = 1

\* the items of `s` up to and including the first one outside `accepted`;
\* all of `s` when there is none
through_first_failure(s, accepted) ==
    LET failing == {i \in 1..Len(s) : s[i] \notin accepted}
    IN  IF failing = {} THEN s
        ELSE SubSeq(s, 1, CHOOSE i \in failing : \A j \in failing : i <= j)

\* C18: take_while_inclusive yields, in order, every element of the underlying
\* sequence up to and including the first element that fails the predicate,
\* and then ends; if no element fails the predicate it yields the whole
\* sequence (e.g. [2, 4, 6, 9, 10] with "is even" gives [2, 4, 6, 9]).
C18_InclusivePrefix ==
    LET expected == through_first_failure(test.v, test.it.predicate)
    IN  /\ Len(test.r) <= Len(expected)
        /\ test.r = SubSeq(expected, 1, Len(test.r))
        /\ test.ended =>
               /\ test.r = expected
               /\ TakeWhileInclusive_next(test.it)[1] = None
        /\ (test.ended /\ test.v = TestVector) => test.r = <<2, 4, 6, 9>>
        /\ take_while_inclusive(test.v, test.it.predicate) = expected

\* C18 witness: the unit test's vector has been drained, 9 included
C18_UnitTestDrained ==
    /\ test.v = TestVector
    /\ test.ended
    /\ test.r = <<2, 4, 6, 9>>

\* the destinations of the Regular moves available_moves gives the pieces of
\* `color`
regular_destinations(self, color) ==
    LET ps == filter(pieces(self), LAMBDA pp : pp[1].color = color)
    IN  UNION {{mv.to : mv \in {m \in Range(available_moves(self, ps[i][1], ps[i][2])) :
                                   m.tag = "Regular"}} :
               i \in 1..Len(ps)}

\* C19: Attack definition. is_attacked(q, c) is true iff some piece of color c
\* has a Regular move with destination q in its available_moves; Castling
\* pseudo-moves never count as attacks.
C19_AttackedIffRegularMove ==
    \A color \in PieceColor :
        LET reached == regular_destinations(board, color)
        IN  \A q \in AllPos : is_attacked(board, q, color) <=> q \in reached

\* C19 witness: after a move, the white king (off its home) is offered the
\* short castle, g1 is not attacked by White, and a black piece is
C19_CastleDoesNotAttack ==
    /\ n_moves > 0
    /\ \E pos \in AllPos :
         /\ square_by_pos(board, pos) = Piece("King", "White")
         /\ contains(available_moves(board, Piece("King", "White"), pos),
                     castling("Short"))
    /\ ~is_attacked(board, Pos(G, 1), "White")
    /\ \E pos \in AllPos : /\ is_square_occupied_by_color(board, pos, "Black")
                           /\ is_attacked(board, pos, "White")

\* what make_move(Castling{side}) does to `before`, whose side to move castles
castle_applied(before, side, after) ==
    LET color == before.turn
        rank == king_rank(color)
        king_to == IF side = "Short" THEN G ELSE C
        rook_from == IF side = "Short" THEN H ELSE A
        rook_to == IF side = "Short" THEN F ELSE D
        rook_flag == IF side = "Short" THEN "rook_moved_short" ELSE "rook_moved_long"
    IN  /\ square_by_pos(after, Pos(king_to, rank)) = square_by_pos(before, Pos(E, rank))
        /\ square_by_pos(after, Pos(rook_to, rank))
               = square_by_pos(before, Pos(rook_from, rank))
        /\ square_by_pos(after, Pos(E, rank)) = Empty
        /\ square_by_pos(after, Pos(rook_from, rank)) = Empty
        /\ castling_of(after, color).king_moved
        /\ castling_of(after, color)[rook_flag]
        /\ after.plies_since_last_non_repeatable_move
               = before.plies_since_last_non_repeatable_move + 1
        /\ after.turn = Not(color)

\* C20: Castle application. make_move(Castling{side}) for side to move c,
\* whatever the board contents, moves the content of cell E to G (Short) or C
\* (Long) and the content of cell H to F (Short) or A to D (Long) on c's home
\* rank, leaving cell E and the rook's original corner empty; sets c's
\* king_moved and the matching rook_moved flag; increments the ply counter by
\* exactly 1; and flips the side to move.
C20_CastleApplication ==
    \A side \in {"Short", "Long"} :
        castle_applied(board, side, make_move(board, castling(side)))

\* C20 witness: White has castled short in the game: king on g1, rook on f1,
\* e1 and h1 empty, both flags set
C20_WhiteCastledShort ==
    /\ applied(castling("Short"))
    /\ square_by_pos(board, Pos(G, 1)) = Piece("King", "White")
    /\ square_by_pos(board, Pos(F, 1)) = Piece("Rook", "White")
    /\ square_by_pos(board, Pos(E, 1)) = Empty
    /\ square_by_pos(board, Pos(H, 1)) = Empty
    /\ board.castling_white.king_moved
    /\ board.castling_white.rook_moved_short

\* the Regular moves available_moves offers the pieces on the board, each with
\* the piece it moves: <<piece, move>>
regular_moves_offered(self) ==
    LET ps == pieces(self)
    IN  UNION {{<<ps[i][1], mv>> :
                   mv \in {m \in Range(available_moves(self, ps[i][1], ps[i][2])) :
                              m.tag = "Regular"}} :
               i \in 1..Len(ps)}

\* the castling flags after a Regular move of `piece`, where `long` and
\* `short` tell whether the move counts as the rook leaving file A or H
flags_after(before, piece, long, short, after) ==
    /\ castling_of(after, Not(piece.color)) = castling_of(before, Not(piece.color))
    /\ castling_of(after, piece.color) =
           [king_moved |->
                castling_of(before, piece.color).king_moved \/ piece.kind = "King",
            rook_moved_short |->
                castling_of(before, piece.color).rook_moved_short
                    \/ (piece.kind = "Rook" /\ short),
            rook_moved_long |->
                castling_of(before, piece.color).rook_moved_long
                    \/ (piece.kind = "Rook" /\ long)]

\* C21 (as stated): make_move of a Regular move sets the mover's color's
\* king_moved flag when the moved piece is a King, and that color's
\* rook_moved_long (rook_moved_short) flag when the moved piece is a Rook that
\* moves off its home file A (H), i.e. from file A (H) to another file; it
\* changes no other castling flag of either color.
C21_RookLeavesItsFile ==
    \A pm \in regular_moves_offered(board) :
        flags_after(board, pm[1],
                    pm[2].from.file = A /\ pm[2].to.file # A,
                    pm[2].from.file = H /\ pm[2].to.file # H,
                    make_move(board, pm[2]))

\* C21 (amended): make_move of a Regular move sets the mover's color's
\* king_moved flag when the moved piece is a King, and that color's
\* rook_moved_long (rook_moved_short) flag when the moved piece is a Rook whose
\* origin is on file A (H), whatever its rank and its destination; it changes
\* no other castling flag of either color.
C21_RookMovesFromItsFile ==
    \A pm \in regular_moves_offered(board) :
        flags_after(board, pm[1], pm[2].from.file = A, pm[2].from.file = H,
                    make_move(board, pm[2]))

\* C21 witness: the white rook on h1 is offered the capture on h2, a move
\* along its own file, while rook_moved_short is still unset
C21_RookMoveAlongItsFile ==
    /\ n_moves > 0
    /\ square_by_pos(board, Pos(H, 1)) = Piece("Rook", "White")
    /\ ~board.castling_white.rook_moved_short
    /\ contains(available_moves(board, Piece("Rook", "White"), Pos(H, 1)),
                Move_new(Pos(H, 1), Pos(H, 2)))
    /\ make_move(board, Move_new(Pos(H, 1), Pos(H, 2))).castling_white.rook_moved_short

\* the origins of the pieces of `piece`'s kind and color that have a legal
\* move to `to`
reachers(self, piece, to) ==
    LET ps == pieces(self)
    IN  {ps[i][2] : i \in {j \in 1..Len(ps) :
                             /\ ps[j][1] = piece
                             /\ legal_moves_to(self, ps[j][1], ps[j][2], to) # <<>>}}

\* the origin `pos` fits the disambiguator `from` (Option<FromPos>)
fits(from, pos) ==
    CASE from = None -> TRUE
      [] unwrap(from).tag = "File" -> pos.file = unwrap(from).file
      [] unwrap(from).tag = "Rank" -> pos.rank = unwrap(from).rank
      [] unwrap(from).tag = "Square" -> pos = unwrap(from).pos

\* the disambiguation rule for the mover on `from` and its competitors
disambiguation_rule(given, from, competitors) ==
    /\ competitors = {} => given = None
    /\ (\E c \in competitors : c.file # from.file) =>
           given = Some(FromPos_File(from.file))
    /\ (competitors # {} /\ \A c \in competitors : c.file = from.file) =>
           given = Some(FromPos_Rank(from.rank))
    /\ \A c \in competitors \cup {from} : fits(given, c) => c = from

\* C22: SAN disambiguation of non-pawn moves. to_san_move omits the origin when
\* the moving piece is the only piece of its kind and color or when no other
\* piece of the same kind and color has a legal move to the destination;
\* otherwise it gives the origin file if the competitors differ from the mover
\* in file, else the origin rank if all competitors share the mover's file,
\* else the full origin square; and the disambiguator chosen always identifies
\* the mover uniquely among the pieces of that kind and color that can legally
\* reach the destination.
C22_SanDisambiguation ==
    find_king(board, board.turn) # None =>
        LET ps == pieces(board)
        IN  \A i \in 1..Len(ps) :
                (ps[i][1].color = board.turn /\ ps[i][1].kind # "Pawn") =>
                    \A mv \in {m \in Range(legal_moves(board, ps[i][1], ps[i][2])) :
                                  m.tag = "Regular"} :
                        disambiguation_rule(
                            to_san_move(board, mv).from, mv.from,
                            reachers(board, ps[i][1], mv.to) \ {mv.from})

\* the directions a sliding piece moves along, as <<file step, rank step>>
slide_directions(kind) ==
    LET straight == {<<0, 1>>, <<0, -1>>, <<-1, 0>>, <<1, 0>>}
        oblique == {<<-1, 1>>, <<1, 1>>, <<-1, -1>>, <<1, -1>>}
    IN  CASE kind = "Rook" -> straight
          [] kind = "Bishop" -> oblique
          [] kind = "Queen" -> straight \cup oblique

\* the cells a piece of `color` on `pos` slides to along `dir`: the k-th cell
\* is on the board, the cells before it are empty, and it is empty or holds a
\* piece of the opposite color
slide_destinations(self, color, pos, dir) ==
    LET on_board(k) == /\ pos.file + k * dir[1] \in 1..8
                       /\ pos.rank + k * dir[2] \in 1..8
        cell(k) == Pos(pos.file + k * dir[1], pos.rank + k * dir[2])
    IN  {cell(k) : k \in {n \in 1..7 :
            /\ on_board(n)
            /\ \A j \in 1..(n - 1) : square_by_pos(self, cell(j)) = Empty
            /\ \/ square_by_pos(self, cell(n)) = Empty
               \/ square_by_pos(self, cell(n)).color = Not(color)}}

sliders(self) ==
    filter(pieces(self), LAMBDA pp : pp[1].kind \in {"Bishop", "Rook", "Queen"})

\* C23: Sliding rays. For a Bishop, Rook or Queen on square s, along each
\* applicable direction the destinations in available_moves are exactly the
\* consecutive on-board empty cells starting next to s up to the first occupied
\* cell, plus that first occupied cell if and only if it holds a piece of the
\* opposite color; no cell beyond the first occupied cell is ever a destination.
C23_SlidingRays ==
    LET ps == sliders(board)
    IN  \A i \in 1..Len(ps) :
            LET am == available_moves(board, ps[i][1], ps[i][2])
            IN  /\ \A j \in 1..Len(am) :
                       am[j] = Move_new(ps[i][2], am[j].to)
                /\ {am[j].to : j \in 1..Len(am)} =
                       UNION {slide_destinations(board, ps[i][1].color, ps[i][2], dir) :
                                 dir \in slide_directions(ps[i][1].kind)}
                /\ Cardinality({am[j].to : j \in 1..Len(am)}) = Len(am)

\* C23 witness: after a move, a bishop away from its home rank has a capture
\* among its destinations and a piece of its own color next to it on a diagonal
C23_BishopCaptureAndBlocker ==
    /\ n_moves > 0
    /\ LET ps == sliders(board)
       IN  \E i \in 1..Len(ps) :
               /\ ps[i][1].kind = "Bishop"
               /\ ps[i][2].rank \notin {1, 8}
               /\ \E mv \in Range(available_moves(board, ps[i][1], ps[i][2])) :
                      is_square_occupied_by_color(board, mv.to, Not(ps[i][1].color))
               /\ \E dir \in slide_directions("Bishop") :
                      /\ ps[i][2].file + dir[1] \in 1..8
                      /\ ps[i][2].rank + dir[2] \in 1..8
                      /\ is_square_occupied_by_color(
                             board,
                             Pos(ps[i][2].file + dir[1], ps[i][2].rank + dir[2]),
                             ps[i][1].color)

\* C24: No self-check after any legal move. For every state reachable from the
\* starting position and every move m (Regular or Castling) that is in
\* available_moves and passes is_legal_move for a piece of the side to move,
\* the mover's king is not attacked by the opponent in the state after
\* make_move(m); i.e. the side that is not to move is never in check.
C24_NoSelfCheck ==
    find_king(board, board.turn) # None =>
        LET ps == pieces(board)
        IN  \A i \in 1..Len(ps) :
                ps[i][1].color = board.turn =>
                    \A mv \in Range(legal_moves(board, ps[i][1], ps[i][2])) :
                        ~is_king_attacked(make_move(board, mv), board.turn)

\* the corner the rook of a castle starts from
rook_corner(side, color) == Pos(IF side = "Short" THEN H ELSE A, king_rank(color))

\* C25: Castling needs king and rook in place. In every state reachable from
\* the starting position by legal moves, whenever legal_moves of the
\* side-to-move's king contains Castling{side}, that king stands on E of its
\* home rank and a rook of the same color stands on the matching corner (H for
\* Short, A for Long); so applying the castle always ends with that king on
\* G/C and that rook on F/D.
C25_CastlingPiecesInPlace ==
    LET kings == kings_of(board, board.turn)
    IN  \A i \in 1..Len(kings) :
            \A side \in {"Short", "Long"} :
                contains(legal_moves(board, kings[i][1], kings[i][2]), castling(side)) =>
                    /\ kings[i][2] = king_home(board.turn)
                    /\ square_by_pos(board, rook_corner(side, board.turn))
                           = Piece("Rook", board.turn)
                    /\ LET after == make_move(board, castling(side))
                           rank == king_rank(board.turn)
                       IN  /\ square_by_pos(after, Pos(IF side = "Short" THEN G ELSE C, rank))
                                  = Piece("King", board.turn)
                           /\ square_by_pos(after, Pos(IF side = "Short" THEN F ELSE D, rank))
                                  = Piece("Rook", board.turn)


\* what a move may change: cell contents, side to move, counters and castling
\* flags (highlight flags, the selection and the result are left out)
played_position(self) ==
    [cells |-> [i \in DOMAIN self.squares |-> self.squares[i][1]],
     turn |-> self.turn,
     castling_white |-> self.castling_white,
     castling_black |-> self.castling_black,
     plies_since_last_non_repeatable_move |-> self.plies_since_last_non_repeatable_move,
     move_number |-> self.move_number]

\* C26: Only legal moves are applied by the click handler. Whenever a
\* ClickOnSquare changes the cell contents, the side to move, a counter or a
\* castling flag, a piece was selected before the click, it has the color of
\* the side to move and still stands on its origin, the move m applied is in
\* available_moves of that piece and is_legal_move is true for it, and the
\* change is exactly make_move(m). Every other click leaves all of these
\* unchanged.
C26_OnlyLegalMovesApplied ==
    [][played_position(board') # played_position(board) =>
           /\ board.selected_piece # None
           /\ last_mv' # None
           /\ LET piece == unwrap(board.selected_piece)[1]
                  from == unwrap(board.selected_piece)[2]
                  mv == unwrap(last_mv')
              IN  /\ piece.color = board.turn
                  /\ square_by_pos(board, from) = piece
                  /\ contains(available_moves(board, piece, from), mv)
                  /\ is_legal_move(board, piece, mv)
                  /\ n_moves' = n_moves + 1
                  /\ played_position(board') = played_position(make_move(board, mv))]_vars

\* C26 witness: two moves were applied by clicks, 1. e4 d5, and the White
\* pawn on e4 is selected for the capture
C26_SecondMoveApplied ==
    /\ n_moves = 2
    /\ applied(Move_new(Pos(D, 7), Pos(D, 5)))
    /\ square_by_pos(board, Pos(E, 4)) = Piece("Pawn", "White")
    /\ board.selected_piece = Some(<<Piece("Pawn", "White"), Pos(E, 4)>>)


\* C27: Game over is absorbing. Once game_result is set, no piece of the side
\* to move has a legal move, so that no click can pass the handler's tests,
\* and every later ClickOnSquare leaves the cell contents, the side to move,
\* the move number, the ply counter, the castling flags and game_result
\* unchanged; no further move is recorded.
C27_GameOverIsAbsorbing ==
    [][board.game_result # None =>
           /\ total_legal_moves(board, board.turn) = 0
           /\ played_position(board') = played_position(board)
           /\ board'.game_result = board.game_result
           /\ <<last_mv, n_moves, moves_list>>' = <<last_mv, n_moves, moves_list>>]_vars

\* C27 witness: after 1. f3 e5 2. g4 Qh4# the result is recorded, and a later
\* click has selected White's pawn on e2
C27_ClickAfterMate ==
    /\ board.game_result = Some(WinByCheckmate("White"))
    /\ applied(Move_new(Pos(D, 8), Pos(H, 4)))
    /\ board.selected_piece = Some(<<Piece("Pawn", "White"), Pos(E, 2)>>)


\* the cells with the highlight flag set
highlighted_cells(self) == {i \in 1..Len(self.squares) : self.squares[i][2]}

\* the cell a move of `piece` lands on: its destination, G or C of the
\* king's home rank for a castle
landing_cell(piece, mv) ==
    IF mv.tag = "Regular" THEN mv.to
    ELSE Pos(IF mv.side = "Short" THEN G ELSE C, king_rank(piece.color))

\* C28: Highlights track the selection. After every ClickOnSquare, if
\* selected_piece is Some(piece, pos) the highlighted cells are exactly the
\* cells the legal_moves of piece at pos land on (G or C of the king's home
\* rank for a legal castle), and if selected_piece is None no cell is
\* highlighted; stop_highlighting clears every flag and changes no cell
\* content and no other field.
C28_HighlightsTrackSelection ==
    /\ IF board.selected_piece = None
       THEN highlighted_cells(board) = {}
       ELSE LET piece == unwrap(board.selected_piece)[1]
                pos == unwrap(board.selected_piece)[2]
            IN  highlighted_cells(board) =
                    {square_index_by_pos(landing_cell(piece, mv)) + 1 :
                        mv \in Range(legal_moves(board, piece, pos))}
    /\ LET stopped == stop_highlighting(board)
       IN  /\ highlighted_cells(stopped) = {}
           /\ Len(stopped.squares) = Len(board.squares)
           /\ \A i \in 1..Len(board.squares) : stopped.squares[i][1] = board.squares[i][1]
           /\ [stopped EXCEPT !.squares = board.squares] = board

\* C28 witness: after a click on the White king, both castles are legal and
\* the highlighted cells are d1, f1, c1 and g1
C28_KingSelectedWithCastles ==
    /\ board.selected_piece = Some(<<Piece("King", "White"), Pos(E, 1)>>)
    /\ contains(legal_moves(board, Piece("King", "White"), Pos(E, 1)), castling("Short"))
    /\ contains(legal_moves(board, Piece("King", "White"), Pos(E, 1)), castling("Long"))
    /\ highlighted_cells(board) =
           {square_index_by_pos(Pos(f, 1)) + 1 : f \in {C, D, F, G}}


\* the pawns of `self` that stand on rank 1 or rank 8
pawns_on_back_ranks(self) ==
    {pos \in AllPos : pos.rank \in {1, 8} /\ square_by_pos(self, pos).kind = "Pawn"}

\* the legal moves of the pawns of the side to move that reach a back rank,
\* each with its pawn: <<piece, move>>
back_rank_pawn_moves(self) ==
    LET ps == pieces(self)
    IN  UNION {{<<ps[i][1], mv>> :
                   mv \in {m \in Range(legal_moves(self, ps[i][1], ps[i][2])) :
                              m.tag = "Regular" /\ m.to.rank \in {1, 8}}} :
               i \in {j \in 1..Len(ps) : ps[j][1].kind = "Pawn"
                                          /\ ps[j][1].color = self.turn}}

\* C29: No pawn on a back rank. In every state reached from the starting
\* position by moves taken from legal_moves, no Pawn of either color stands
\* on rank 1 or rank 8; every legal move that takes a pawn to a back rank
\* names a Queen, Rook, Bishop or Knight and leaves that piece, of the
\* mover's color, on the destination, with no pawn on a back rank; and the
\* move the click handler builds for such a click promotes to a Queen.
C29_NoPawnOnBackRank ==
    /\ pawns_on_back_ranks(board) = {}
    /\ find_king(board, board.turn) # None =>
           \A pm \in back_rank_pawn_moves(board) :
               LET piece == pm[1]
                   mv == pm[2]
                   after == make_move(board, mv)
               IN  /\ mv.promoted # None
                   /\ unwrap(mv.promoted) \in {"Queen", "Rook", "Bishop", "Knight"}
                   /\ square_by_pos(after, mv.to) = Piece(unwrap(mv.promoted), piece.color)
                   /\ square_by_pos(after, mv.from) = Empty
                   /\ pawns_on_back_ranks(after) = {}
                   /\ clicked_move(board, piece, mv.from, mv.to)
                          = new_with_promoted(mv.from, mv.to, Some("Queen"))

\* C29 witness: a Black pawn has just taken on g1 and a Black knight stands
\* there
C29_PromotedOnBackRank ==
    /\ applied(new_with_promoted(Pos(H, 2), Pos(G, 1), Some("Knight")))
    /\ square_by_pos(board, Pos(G, 1)) = Piece("Knight", "Black")
    /\ board.turn = "White"


\* the frame of make_move(mv) for `piece` on mv.from: `after` differs from
\* `before` in the cells mv.from and mv.to only, where `landed` stands
regular_frame(before, mv, landed, after) ==
    /\ Len(after.squares) = 64
    /\ \A pos \in AllPos :
           square_by_pos(after, pos) =
               IF pos = mv.from THEN Empty
               ELSE IF pos = mv.to THEN landed
               ELSE square_by_pos(before, pos)
    /\ \A i \in 1..Len(before.squares) : after.squares[i][2] = before.squares[i][2]
    /\ after.selected_piece = before.selected_piece
    /\ after.game_result = before.game_result
    /\ Len(pieces(after)) =
           Len(pieces(before)) - (IF square_by_pos(before, mv.to) # Empty THEN 1 ELSE 0)

\* C30: Frame of a Regular move. make_move(Regular{from, to, promoted}) with
\* a piece on from changes exactly the cells from and to: from becomes Empty
\* and to holds the moved piece, or the promoted piece of the mover's color
\* when promoted is given; every other cell's content, every highlight flag,
\* selected_piece and game_result are unchanged, the board keeps 64 cells,
\* and the number of pieces drops by exactly one on a capture and is
\* otherwise unchanged.
C30_RegularMoveFrame ==
    \A pm \in regular_moves_offered(board) :
        LET piece == pm[1]
            mv == pm[2]
        IN  regular_frame(board, mv,
                          IF mv.promoted # None
                          THEN Piece(unwrap(mv.promoted), piece.color)
                          ELSE piece,
                          make_move(board, mv))

=============================================================================
